---- MODULE Spec2Model ----
(***************************************************************************)
(* MAX7219 LED display driver (max7219.py): the status mirror, the         *)
(* register writes each public method issues, and the bus transaction      *)
(* lock / select / write / unselect / unlock of _write.                    *)
(*                                                                         *)
(* A method runs as a sequence of steps: the method's own code up to the   *)
(* next bus call is one step, and every bus call of _write is one step.    *)
(* Spec has one driver on the bus, SpecTwo two drivers sharing it, and     *)
(* SpecToggle one driver whose caller only switches LEDs of one row.       *)
(***************************************************************************)
EXTENDS Integers, Sequences, FiniteSets, TLC

\* ------------------------------------------------------------ bounds

\* Transmit failures the bus may raise during one public call.
MaxFaults == 1
\* Columns the caller of SpecToggle uses are 0 .. MaxToggleCol.
MaxToggleCol == 3

\* ------------------------------------------- register address map

DIGIT0 == 1
DIGIT7 == 8
NO_OP == 0
SHUTDOWN == 12
SHUTDOWN_MODE == 0
SHUTDOWN_NORMAL == 1
DECODE_MODE == 9
INTENSITY == 10
SCAN_LIMIT == 11
DISPLAY_TEST == 15

max_devices == 1
SpidataLen == 16
StatusLen == 64

\* char_table[k + 1] is the source's char_table[k]; 128 entries.
char_table ==
  << 126,  48, 109, 121,  51,  91,  95, 112,
     127, 123, 119,  31,  13,  61,  79,  71,
       0,   0,   0,   0,   0,   0,   0,   0,
       0,   0,   0,   0,   0,   0,   0,   0,
       0,   0,   0,   0,   0,   0,   0,   0,
       0,   0,   0,   0, 128,   1, 128,   0,
     126,  48, 109, 121,  51,  91,  95, 112,
     127, 123,   0,   0,   0,   0,   0,   0,
       0, 119,  31,  13,  61,  79,  71,   0,
      55,   0,   0,   0,  14,   0,   0,   0,
     103,   0,   0,   0,   0,   0,   0,   0,
       0,   0,   0,   0,   0,   0,   0,   8,
       0, 119,  31,  13,  61,  79,  71,   0,
      55,   0,   0,   0,  14,   0,  21,  29,
     103,   0,   0,   0,   0,   0,   0,   0,
       0,   0,   0,   0,   0,   0,   0,   0 >>

\* ------------------------------------------ integers as Python has them

\* a & b on unbounded two's-complement integers (b may be negative).
RECURSIVE BitAnd(_, _)
BitAnd(a, b) ==
  IF a = 0 \/ b = 0 THEN 0
  ELSE IF a = -1 THEN b
  ELSE IF b = -1 THEN a
  ELSE (a % 2) * (b % 2) + 2 * BitAnd(a \div 2, b \div 2)

\* ~a
BitNot(a) == -a - 1

\* a | b
BitOr(a, b) == BitNot(BitAnd(BitNot(a), BitNot(b)))

\* a >> n, n >= 0
RECURSIVE ShiftRight(_, _)
ShiftRight(a, n) == IF n = 0 THEN a ELSE ShiftRight(a \div 2, n - 1)

\* self.status is kept as blocks of 8 bytes, one block per device the array
\* has room for: byte k is element (k % 8) + 1 of block (k \div 8) + 1.
Get(st, k) == st[(k \div 8) + 1][(k % 8) + 1]
Put(st, k, v) == [st EXCEPT ![(k \div 8) + 1][(k % 8) + 1] = v]

\* bytes.__getitem__: a negative index counts from the end, and an index
\* outside -len .. len-1 raises IndexError (reported as -1 here).
IndexError == -1
GetItem(table, k) ==
  IF k >= 0 /\ k < Len(table) THEN table[k + 1]
  ELSE IF k < 0 /\ k >= -Len(table) THEN table[Len(table) + k + 1]
  ELSE IndexError

\* ------------------------------------------------------- one step of a method

\* What a method does next, given the number i of register writes it has
\* completed: it calls _write(opcode, data), returns, or raises.  st is the
\* status array as the method leaves it at that point.
DoWrite(st, opcode, data) ==
  [kind |-> "write", st |-> st, opcode |-> opcode, data |-> data]
DoReturn(st) == [kind |-> "ret", st |-> st, opcode |-> 0, data |-> 0]
DoRaise(st) == [kind |-> "raise", st |-> st, opcode |-> 0, data |-> 0]

shutdown(powerdown, i, st) ==
  IF i > 0 THEN DoReturn(st)
  ELSE IF powerdown THEN DoWrite(st, SHUTDOWN, SHUTDOWN_MODE)
  ELSE DoWrite(st, SHUTDOWN, SHUTDOWN_NORMAL)

set_scan_limit(limit, i, st) ==
  IF i = 0 /\ (limit >= 0) /\ (limit < 8) THEN DoWrite(st, SCAN_LIMIT, limit)
  ELSE DoReturn(st)

set_intensity(intensity, i, st) ==
  IF i = 0 /\ (intensity >= 0) /\ (intensity < 16)
  THEN DoWrite(st, INTENSITY, intensity)
  ELSE DoReturn(st)

clear_display(i, st) ==
  IF i < 8
  THEN LET st1 == Put(st, i, 0)
       IN  DoWrite(st1, i + 1, Get(st1, i))
  ELSE DoReturn(st)

\* set_led without "val =~ val": the off branch ANDs with the mask itself.
set_led_noinvert(row, column, state, i, st) ==
  IF (row < 0) \/ (row > 7) \/ (column < 0) \/ (column > 7) THEN DoReturn(st)
  ELSE IF i > 0 THEN DoReturn(st)
  ELSE LET val == ShiftRight(128, column)
           st1 == IF state
                  THEN Put(st, row, BitOr(Get(st, row), val))
                  ELSE Put(st, row, BitAnd(Get(st, row), val))
       IN  DoWrite(st1, row + 1, Get(st1, row))

\* set_led writing the mask val to the device instead of status[row].
set_led_writes_mask(row, column, state, i, st) ==
  IF (row < 0) \/ (row > 7) \/ (column < 0) \/ (column > 7) THEN DoReturn(st)
  ELSE IF i > 0 THEN DoReturn(st)
  ELSE LET val == ShiftRight(128, column)
           st1 == IF state
                  THEN Put(st, row, BitOr(Get(st, row), val))
                  ELSE Put(st, row, BitAnd(Get(st, row), BitNot(val)))
       IN  DoWrite(st1, row + 1, val)

set_led(row, column, state, i, st) ==
  IF (row < 0) \/ (row > 7) \/ (column < 0) \/ (column > 7) THEN DoReturn(st)
  ELSE IF i > 0 THEN DoReturn(st)
  ELSE LET val == ShiftRight(128, column)
           st1 == IF state
                  THEN Put(st, row, BitOr(Get(st, row), val))
                  ELSE Put(st, row, BitAnd(Get(st, row), BitNot(val)))
       IN  DoWrite(st1, row + 1, Get(st1, row))

set_row(row, state, i, st) ==
  IF (row < 0) \/ (row > 7) THEN DoReturn(st)
  ELSE LET new_led_state == IF state THEN 1 ELSE 0
       IN  IF i < 8 THEN set_led(row, i, new_led_state # 0, 0, st)
           ELSE DoReturn(st)

\* set_column calling set_led(col, i, ...): row and column exchanged.
set_column_swapped(col, state, i, st) ==
  IF (col < 0) \/ (col > 7) THEN DoReturn(st)
  ELSE LET new_led_state == IF state THEN 1 ELSE 0
       IN  IF i < 8 THEN set_led(col, i, new_led_state # 0, 0, st)
           ELSE DoReturn(st)

set_column(col, state, i, st) ==
  IF (col < 0) \/ (col > 7) THEN DoReturn(st)
  ELSE LET new_led_state == IF state THEN 1 ELSE 0
       IN  IF i < 8 THEN set_led(i, col, new_led_state # 0, 0, st)
           ELSE DoReturn(st)

\* set_digit with the value check off by one (value > 16).
set_digit_loose(digit, value, dp, i, st) ==
  IF (digit < 0) \/ (digit > 7) \/ (value > 16) THEN DoReturn(st)
  ELSE IF i > 0 THEN DoReturn(st)
  ELSE LET v0 == GetItem(char_table, value)
           v == IF dp THEN BitOr(v0, 128) ELSE v0
       IN  IF v0 = IndexError THEN DoRaise(st)
           ELSE DoWrite(Put(st, digit, v), digit + 1, v)

set_digit(digit, value, dp, i, st) ==
  IF (digit < 0) \/ (digit > 7) \/ (value > 15) THEN DoReturn(st)
  ELSE IF i > 0 THEN DoReturn(st)
  ELSE LET v0 == GetItem(char_table, value)
           v == IF dp THEN BitOr(v0, 128) ELSE v0
       IN  IF v0 = IndexError THEN DoRaise(st)
           ELSE DoWrite(Put(st, digit, v), digit + 1, v)

set_char(digit, value, state, i, st) ==
  IF (digit < 0) \/ (digit > 7) THEN DoReturn(st)
  ELSE IF i > 0 THEN DoReturn(st)
  ELSE LET index == IF value > 127 THEN 32 ELSE value
           v0 == GetItem(char_table, index)
           v == IF state THEN BitOr(v0, 128) ELSE v0
       IN  IF v0 = IndexError THEN DoRaise(st)
           ELSE DoWrite(Put(st, digit, v), digit + 1, v)

\* The constructor entering shutdown before it clears the display.
MAX7219_shutdown_first(i, st) ==
  IF i = 0 THEN DoWrite(st, DISPLAY_TEST, 0)
  ELSE IF i = 1 THEN set_scan_limit(7, 0, st)
  ELSE IF i = 2 THEN DoWrite(st, DECODE_MODE, 0)
  ELSE IF i = 3 THEN shutdown(TRUE, 0, st)
  ELSE IF i < 12 THEN clear_display(i - 4, st)
  ELSE DoReturn(st)

\* The constructor's body for the one device (lines 89-97): five calls.
MAX7219(i, st) ==
  IF i = 0 THEN DoWrite(st, DISPLAY_TEST, 0)
  ELSE IF i = 1 THEN set_scan_limit(7, 0, st)
  ELSE IF i = 2 THEN DoWrite(st, DECODE_MODE, 0)
  ELSE IF i < 11 THEN clear_display(i - 3, st)
  ELSE IF i = 11 THEN shutdown(TRUE, 0, st)
  ELSE DoReturn(st)

\* _write appending the scratch buffer in index order, not reversed.
_write_noreverse(opcode, data, sd) ==
  LET maxbytes == max_devices * 2
      sd0 == [k \in DOMAIN sd |-> IF k - 1 < maxbytes THEN 0 ELSE sd[k]]
      sd1 == [sd0 EXCEPT ![1 + 1] = opcode]
      sd2 == [sd1 EXCEPT ![0 + 1] = data]
  IN  [spidata |-> sd2,
       buffer |-> [n \in 1..maxbytes |-> sd2[(n - 1) + 1]]]

\* _write up to its bus calls: the scratch buffer (a tuple: spidata[k] of the
\* source is element k + 1) and the frame built from it.
_write(opcode, data, sd) ==
  LET maxbytes == max_devices * 2
      sd0 == [k \in DOMAIN sd |-> IF k - 1 < maxbytes THEN 0 ELSE sd[k]]
      sd1 == [sd0 EXCEPT ![1 + 1] = opcode]
      sd2 == [sd1 EXCEPT ![0 + 1] = data]
  IN  [spidata |-> sd2,
       buffer |-> [n \in 1..maxbytes |-> sd2[((maxbytes - n + 1) - 1) + 1]]]

\* ------------------------------------------------------------- state

Drivers == {1, 2}
Free == 0
NoCall == [op |-> "none", a |-> 0, b |-> 0, c |-> FALSE]
NoHist == [row |-> -1, column |-> -1, prior |-> 0]

VARIABLES
  phase,      \* per driver: "unborn", "idle", "run" (in a method), "ret" (returning)
  call,       \* per driver: the public method being run and its arguments
  i,          \* per driver: register writes the running method has completed
  wpc,        \* per driver: "op" (outside _write) or the next bus call of _write
  status,     \* per driver: self.status
  spidata,    \* per driver: self.spidata
  buffer,     \* per driver: _write's local frame
  exc,        \* per driver: an exception is propagating out of _write
  raised,     \* per driver: the method ended by raising to its caller
  lockHolder, \* the bus lock: Free or the driver holding it
  cs,         \* per driver: its chip-select line is asserted
  pre,        \* per driver: status[0..7] when the running method was called
  log,        \* per driver: frames handed to the bus by the running method
  faults,     \* per driver: transmit failures during the running method
  calls,      \* per driver: bus calls made by the current _write
  req,        \* per driver: the (opcode, data) the current _write was called with
  lastw,      \* per driver: last data byte handed to the bus for each digit register
  hist        \* per driver: the set_led(row, column, True) call just completed

vars == << phase, call, i, wpc, status, spidata, buffer, exc, raised,
           lockHolder, cs, pre, log, faults, calls, req, lastw, hist >>

Zeros(n) == [k \in 1..n |-> 0]
\* bytearray(64) as blocks of 8.
ZeroStatus == [b \in 1..(StatusLen \div 8) |-> Zeros(8)]
\* The rows of the one device: status[0..7].
Rows(st) == st[1]
NoRows == Zeros(8)

Init ==
  /\ phase = [d \in Drivers |-> "unborn"]
  /\ call = [d \in Drivers |-> NoCall]
  /\ i = [d \in Drivers |-> 0]
  /\ wpc = [d \in Drivers |-> "op"]
  /\ status = [d \in Drivers |-> ZeroStatus]
  /\ spidata = [d \in Drivers |-> Zeros(SpidataLen)]
  /\ buffer = [d \in Drivers |-> << >>]
  /\ exc = [d \in Drivers |-> FALSE]
  /\ raised = [d \in Drivers |-> FALSE]
  /\ lockHolder = Free
  /\ cs = [d \in Drivers |-> FALSE]
  /\ pre = [d \in Drivers |-> NoRows]
  /\ log = [d \in Drivers |-> << >>]
  /\ faults = [d \in Drivers |-> 0]
  /\ calls = [d \in Drivers |-> << >>]
  /\ req = [d \in Drivers |-> << >>]
  /\ lastw = [d \in Drivers |-> [r \in 1..8 |-> -1]]
  /\ hist = [d \in Drivers |-> NoHist]

\* ------------------------------------------------------- calling a method

\* MAX7219(spidrv, cs, clk): the fields as lines 78-87 leave them.
Construct(d) ==
  /\ phase[d] = "unborn"
  /\ phase' = [phase EXCEPT ![d] = "run"]
  /\ call' = [call EXCEPT ![d] = [NoCall EXCEPT !.op = "MAX7219"]]
  /\ status' = [status EXCEPT ![d] = Put(ZeroStatus, 0, 0)]
  /\ spidata' = [spidata EXCEPT ![d] = Zeros(SpidataLen)]
  /\ pre' = [pre EXCEPT ![d] = NoRows]
  /\ UNCHANGED << i, wpc, buffer, exc, raised, lockHolder, cs, log, faults,
                  calls, req, lastw, hist >>

\* The caller invokes public method c on a constructed, idle driver.
Call(d, c) ==
  /\ phase[d] = "idle"
  /\ phase' = [phase EXCEPT ![d] = "run"]
  /\ call' = [call EXCEPT ![d] = c]
  /\ pre' = [pre EXCEPT ![d] = Rows(status[d])]
  /\ UNCHANGED << i, wpc, status, spidata, buffer, exc, raised, lockHolder,
                  cs, log, faults, calls, req, lastw, hist >>

\* The method's next step, whatever the method.
Body(c, n, st) ==
  CASE c.op = "MAX7219" -> MAX7219(n, st)
    [] c.op = "shutdown" -> shutdown(c.c, n, st)
    [] c.op = "set_scan_limit" -> set_scan_limit(c.a, n, st)
    [] c.op = "set_intensity" -> set_intensity(c.a, n, st)
    [] c.op = "clear_display" -> clear_display(n, st)
    [] c.op = "set_led" -> set_led(c.a, c.b, c.c, n, st)
    [] c.op = "set_row" -> set_row(c.a, c.c, n, st)
    [] c.op = "set_column" -> set_column(c.a, c.c, n, st)
    [] c.op = "set_digit" -> set_digit(c.a, c.b, c.c, n, st)
    [] c.op = "set_char" -> set_char(c.a, c.b, c.c, n, st)

\* The running method executes up to its next _write (which builds its frame
\* and stops before lock()), or to its return, or raises.
Run(d) ==
  /\ phase[d] = "run"
  /\ wpc[d] = "op"
  /\ LET s == Body(call[d], i[d], status[d])
     IN  /\ status' = [status EXCEPT ![d] = s.st]
         /\ IF s.kind = "write"
            THEN LET w == _write(s.opcode, s.data, spidata[d])
                 IN  /\ spidata' = [spidata EXCEPT ![d] = w.spidata]
                     /\ buffer' = [buffer EXCEPT ![d] = w.buffer]
                     /\ wpc' = [wpc EXCEPT ![d] = "lock"]
                     /\ calls' = [calls EXCEPT ![d] = << >>]
                     /\ req' = [req EXCEPT ![d] = << s.opcode, s.data >>]
                     /\ UNCHANGED << phase, raised >>
            ELSE /\ phase' = [phase EXCEPT ![d] = "ret"]
                 /\ raised' = [raised EXCEPT ![d] = (s.kind = "raise")]
                 /\ UNCHANGED << spidata, buffer, wpc, calls, req >>
  /\ UNCHANGED << call, i, exc, lockHolder, cs, pre, log, faults, lastw, hist >>

\* ------------------------------------------------- the bus calls of _write

\* A lock() that takes the bus without waiting for it.
lock_nowait(d) ==
  /\ phase[d] = "run" /\ wpc[d] = "lock"
  /\ lockHolder' = d
  /\ wpc' = [wpc EXCEPT ![d] = "select"]
  /\ calls' = [calls EXCEPT ![d] = Append(@, "lock")]
  /\ UNCHANGED << phase, call, i, status, spidata, buffer, exc, raised, cs,
                  pre, log, faults, req, lastw, hist >>

\* self.lock(): waits until the bus lock is free.
lock(d) ==
  /\ phase[d] = "run" /\ wpc[d] = "lock"
  /\ lockHolder = Free
  /\ lockHolder' = d
  /\ wpc' = [wpc EXCEPT ![d] = "select"]
  /\ calls' = [calls EXCEPT ![d] = Append(@, "lock")]
  /\ UNCHANGED << phase, call, i, status, spidata, buffer, exc, raised, cs,
                  pre, log, faults, req, lastw, hist >>

\* self.select()
select(d) ==
  /\ phase[d] = "run" /\ wpc[d] = "select"
  /\ cs' = [cs EXCEPT ![d] = TRUE]
  /\ wpc' = [wpc EXCEPT ![d] = "write"]
  /\ calls' = [calls EXCEPT ![d] = Append(@, "select")]
  /\ UNCHANGED << phase, call, i, status, spidata, buffer, exc, raised,
                  lockHolder, pre, log, faults, req, lastw, hist >>

\* An except clause that does not match the error the bus raises.
except_KeyError(propagating) == propagating

\* except Exception as e: print(e) -- whether an error raised by write() is
\* still propagating after the except clause: it is caught and printed.
except_Exception(propagating) == FALSE

\* write() outside any try/finally: a failed transmit leaves _write and the
\* method at once.
write_nofinally(d) ==
  /\ phase[d] = "run" /\ wpc[d] = "write"
  /\ calls' = [calls EXCEPT ![d] = Append(@, "write")]
  /\ log' = [log EXCEPT ![d] = Append(@, buffer[d])]
  /\ lastw' = [lastw EXCEPT ![d] =
                 IF buffer[d][1] \in DIGIT0..DIGIT7
                 THEN [@ EXCEPT ![buffer[d][1]] = buffer[d][2]]
                 ELSE @]
  /\ \/ /\ wpc' = [wpc EXCEPT ![d] = "unselect"]
        /\ UNCHANGED << faults, phase, raised >>
     \/ /\ faults[d] < MaxFaults
        /\ faults' = [faults EXCEPT ![d] = @ + 1]
        /\ wpc' = [wpc EXCEPT ![d] = "op"]
        /\ phase' = [phase EXCEPT ![d] = "ret"]
        /\ raised' = [raised EXCEPT ![d] = TRUE]
  /\ UNCHANGED << call, i, status, spidata, buffer, exc, lockHolder, cs, pre,
                  req, hist >>

\* try: self.write(buffer), which the bus completes or fails.
write(d) ==
  /\ phase[d] = "run" /\ wpc[d] = "write"
  /\ wpc' = [wpc EXCEPT ![d] = "unselect"]
  /\ calls' = [calls EXCEPT ![d] = Append(@, "write")]
  /\ log' = [log EXCEPT ![d] = Append(@, buffer[d])]
  /\ lastw' = [lastw EXCEPT ![d] =
                 IF buffer[d][1] \in DIGIT0..DIGIT7
                 THEN [@ EXCEPT ![buffer[d][1]] = buffer[d][2]]
                 ELSE @]
  /\ \/ UNCHANGED << faults, exc >>
     \/ /\ faults[d] < MaxFaults
        /\ faults' = [faults EXCEPT ![d] = @ + 1]
        /\ exc' = [exc EXCEPT ![d] = except_Exception(TRUE)]
  /\ UNCHANGED << phase, call, i, status, spidata, buffer, raised, lockHolder,
                  cs, pre, req, hist >>

\* finally: self.unselect()
unselect(d) ==
  /\ phase[d] = "run" /\ wpc[d] = "unselect"
  /\ cs' = [cs EXCEPT ![d] = FALSE]
  /\ wpc' = [wpc EXCEPT ![d] = "unlock"]
  /\ calls' = [calls EXCEPT ![d] = Append(@, "unselect")]
  /\ UNCHANGED << phase, call, i, status, spidata, buffer, exc, raised,
                  lockHolder, pre, log, faults, req, lastw, hist >>

\* finally: self.unlock(); then _write returns to the method, or the
\* exception still propagating leaves the method.
unlock(d) ==
  /\ phase[d] = "run" /\ wpc[d] = "unlock"
  /\ lockHolder' = IF lockHolder = d THEN Free ELSE lockHolder
  /\ wpc' = [wpc EXCEPT ![d] = "op"]
  /\ calls' = [calls EXCEPT ![d] = Append(@, "unlock")]
  /\ IF exc[d]
     THEN /\ phase' = [phase EXCEPT ![d] = "ret"]
          /\ raised' = [raised EXCEPT ![d] = TRUE]
          /\ exc' = [exc EXCEPT ![d] = FALSE]
          /\ UNCHANGED i
     ELSE /\ i' = [i EXCEPT ![d] = @ + 1]
          /\ UNCHANGED << phase, raised, exc >>
  /\ UNCHANGED << call, status, spidata, buffer, cs, pre, log, faults, req,
                  lastw, hist >>

\* ------------------------------------------------------------ returning

\* The method hands control back to its caller.
Finish(d) ==
  /\ phase[d] = "ret"
  /\ phase' = [phase EXCEPT ![d] = "idle"]
  /\ call' = [call EXCEPT ![d] = NoCall]
  /\ i' = [i EXCEPT ![d] = 0]
  /\ buffer' = [buffer EXCEPT ![d] = << >>]
  /\ raised' = [raised EXCEPT ![d] = FALSE]
  /\ pre' = [pre EXCEPT ![d] = NoRows]
  /\ log' = [log EXCEPT ![d] = << >>]
  /\ faults' = [faults EXCEPT ![d] = 0]
  /\ calls' = [calls EXCEPT ![d] = << >>]
  /\ req' = [req EXCEPT ![d] = << >>]
  /\ UNCHANGED << wpc, status, spidata, exc, lockHolder, cs, lastw >>

Return(d) == Finish(d) /\ UNCHANGED hist

\* ------------------------------------------------------------- callers

RowArgs == {-1, 0, 8}
ColArgs == {-1, 0, 7, 8}
DigitValues == {0, 15, 16}
CharValues == {65, 128, 200, -127, -129}

Op0(op) == [NoCall EXCEPT !.op = op]
Op1(op, a) == [NoCall EXCEPT !.op = op, !.a = a]
Op2(op, a, c) == [NoCall EXCEPT !.op = op, !.a = a, !.c = c]
Op3(op, a, b, c) == [op |-> op, a |-> a, b |-> b, c |-> c]

Menu ==
  {Op2("shutdown", 0, p) : p \in BOOLEAN}
    \cup {Op1("set_scan_limit", n) : n \in {-1, 0, 7, 8}}
    \cup {Op1("set_intensity", n) : n \in {-1, 0, 15, 16}}
    \cup {Op0("clear_display")}
    \cup {Op3("set_led", r, c, s) : r \in RowArgs, c \in ColArgs, s \in BOOLEAN}
    \cup {Op2("set_row", r, s) : r \in RowArgs, s \in BOOLEAN}
    \cup {Op2("set_column", c, s) : c \in ColArgs, s \in BOOLEAN}
    \cup {Op3("set_digit", r, v, s) : r \in RowArgs, v \in DigitValues, s \in BOOLEAN}
    \cup {Op3("set_char", r, v, s) : r \in RowArgs, v \in CharValues, s \in BOOLEAN}

Next ==
  \/ Construct(1)
  \/ \E c \in Menu : Call(1, c)
  \/ Run(1)
  \/ lock(1)
  \/ select(1)
  \/ write(1)
  \/ unselect(1)
  \/ unlock(1)
  \/ Return(1)

Spec == Init /\ [][Next]_vars

\* A caller that only switches LEDs of row 0, one at a time or the whole row.
ToggleMenu ==
  {Op3("set_led", 0, c, s) : c \in 0..MaxToggleCol, s \in BOOLEAN}
    \cup {Op2("set_row", 0, s) : s \in BOOLEAN}

\* Return, remembering a set_led(row, column, True) that has just completed
\* and the value status[row] had when it was called.
ReturnTracked(d) ==
  /\ Finish(d)
  /\ hist' = [hist EXCEPT ![d] =
                IF /\ call[d].op = "set_led"
                   /\ call[d].c
                   /\ call[d].a \in 0..7
                   /\ call[d].b \in 0..7
                   /\ ~raised[d]
                THEN [row |-> call[d].a, column |-> call[d].b,
                      prior |-> pre[d][call[d].a + 1]]
                ELSE NoHist]

NextToggle ==
  \/ Construct(1)
  \/ \E c \in ToggleMenu : Call(1, c)
  \/ Run(1)
  \/ lock(1)
  \/ select(1)
  \/ write(1)
  \/ unselect(1)
  \/ unlock(1)
  \/ ReturnTracked(1)

SpecToggle == Init /\ [][NextToggle]_vars

\* Two drivers, each with its own chip-select, on one bus with one lock.
TwoMenu ==
  {Op2("shutdown", 0, FALSE), Op1("set_intensity", 15),
   Op3("set_led", 0, 0, TRUE)}

NextTwo ==
  \E d \in Drivers :
    \/ Construct(d)
    \/ \E c \in TwoMenu : Call(d, c)
    \/ Run(d)
    \/ lock(d)
    \/ select(d)
    \/ write(d)
    \/ unselect(d)
    \/ unlock(d)
    \/ Return(d)

SpecTwo == Init /\ [][NextTwo]_vars

\* ------------------------------------------------------------- claims

Pow2(k) == ShiftRight(128, 7 - k)
HasBit(x, k) == (x \div Pow2(k)) % 2 = 1
\* x with bit k set (on) or cleared, by arithmetic.
WithBit(x, k, on) ==
  IF on THEN (IF HasBit(x, k) THEN x ELSE x + Pow2(k))
  ELSE (IF HasBit(x, k) THEN x - Pow2(k) ELSE x)

IsPrefix(s, t) == Len(s) <= Len(t) /\ s = SubSeq(t, 1, Len(s))

BusOrder == << "lock", "select", "write", "unselect", "unlock" >>

\* The method run from status st with every transmit succeeding: how it
\* ends, the status it leaves and the number of register writes it makes.
RECURSIVE RunToEnd(_, _, _)
RunToEnd(c, n, st) ==
  LET s == Body(c, n, st)
  IN  IF s.kind = "write" THEN RunToEnd(c, n + 1, s.st)
      ELSE [kind |-> s.kind, st |-> s.st, writes |-> n]

\* C1: every register write makes the bus calls lock, select, write,
\* unselect, unlock in that order, also when the transmit fails; the
\* chip-select is asserted only under the lock, and once a method has
\* returned the chip-select is deasserted and the lock is free.
C1_BusCallOrder ==
  \A d \in Drivers :
    /\ IsPrefix(calls[d], BusOrder)
    /\ (phase[d] = "run" /\ wpc[d] = "op" /\ i[d] > 0) => calls[d] = BusOrder
    /\ (phase[d] = "ret" /\ Len(log[d]) > 0) => calls[d] = BusOrder
    /\ cs[d] => lockHolder = d
    /\ phase[d] \in {"ret", "idle"} => (~cs[d] /\ lockHolder # d)

C1_Witness ==
  /\ phase[1] = "ret"
  /\ call[1].op = "set_column"
  /\ faults[1] > 0
  /\ Len(log[1]) = 8
  /\ calls[1] = BusOrder
  /\ ~cs[1]
  /\ lockHolder = Free

\* C2: the frame _write hands to the bus is exactly two bytes, the opcode
\* it was called with first and the data byte second, whatever the scratch
\* buffer held before.
C2_FrameIsOpcodeData ==
  \A d \in Drivers :
    /\ (phase[d] = "run" /\ wpc[d] # "op") =>
         (Len(buffer[d]) = 2 /\ buffer[d] = req[d])
    /\ \A n \in 1..Len(log[d]) : Len(log[d][n]) = 2

C2_Witness ==
  /\ phase[1] = "run"
  /\ wpc[1] = "write"
  /\ call[1].op = "set_intensity"
  /\ spidata[1][0 + 1] = 15 /\ spidata[1][1 + 1] = INTENSITY
  /\ buffer[1] = << INTENSITY, 15 >>
  /\ Get(status[1], 0) = 255

InitWrites ==
  << << DISPLAY_TEST, 0 >>, << SCAN_LIMIT, 7 >>, << DECODE_MODE, 0 >>,
     << 1, 0 >>, << 2, 0 >>, << 3, 0 >>, << 4, 0 >>,
     << 5, 0 >>, << 6, 0 >>, << 7, 0 >>, << 8, 0 >>,
     << SHUTDOWN, 0 >> >>

\* C3 as stated: the constructor's register writes are display-test off,
\* scan-limit 7, decode-mode off, eight zero writes to digit registers 1..8,
\* shutdown 0, in this order and no others, and they are 13 writes.
C3_ConstructorWrites13 ==
  \A d \in Drivers :
    call[d].op = "MAX7219" =>
      /\ IsPrefix(log[d], InitWrites)
      /\ phase[d] = "ret" => (log[d] = InitWrites /\ Len(log[d]) = 13)

\* C3 as amended: the same writes in the same order and no others, which
\* are 12 writes when the constructor returns.
C3_ConstructorWrites12 ==
  \A d \in Drivers :
    call[d].op = "MAX7219" =>
      /\ IsPrefix(log[d], InitWrites)
      /\ phase[d] = "ret" =>
           (log[d] = InitWrites /\ Len(log[d]) = 12 /\ ~raised[d])

C3_Witness ==
  /\ phase[1] = "ret"
  /\ call[1].op = "MAX7219"
  /\ log[1] = InitWrites
  /\ faults[1] > 0

\* C4: whenever no method is running, status[r] is the data byte of the
\* last frame handed to the bus for digit register r + 1, for every row r.
C4_StatusMirrorsLastWrite ==
  \A d \in Drivers :
    phase[d] \in {"idle", "ret"} =>
      \A r \in 0..7 : Get(status[d], r) = lastw[d][r + 1]

C4_Witness ==
  /\ phase[1] = "idle"
  /\ Get(status[1], 0) = 247
  /\ Get(status[1], 7) = 1
  /\ lastw[1][1] = 247

\* The calls C5 is about: an argument out of its range.
OutOfRange(c) ==
  \/ c.op = "set_led" /\ (c.a \notin 0..7 \/ c.b \notin 0..7)
  \/ c.op \in {"set_row", "set_column"} /\ c.a \notin 0..7
  \/ c.op = "set_digit" /\ (c.a \notin 0..7 \/ c.b > 15)
  \/ c.op = "set_char" /\ c.a \notin 0..7
  \/ c.op = "set_scan_limit" /\ c.a \notin 0..7
  \/ c.op = "set_intensity" /\ c.a \notin 0..15

\* C5: a method called with an out-of-range argument issues no register
\* write, changes no entry of status and returns without raising.
C5_OutOfRangeIsNoOp ==
  \A d \in Drivers :
    (phase[d] \in {"run", "ret"} /\ OutOfRange(call[d])) =>
      /\ log[d] = << >>
      /\ Rows(status[d]) = pre[d]
      /\ \A k \in 8..(StatusLen - 1) : Get(status[d], k) = 0
      /\ wpc[d] = "op"
      /\ ~raised[d]

C5_Witness ==
  /\ phase[1] = "ret"
  /\ call[1] = Op3("set_digit", 0, 16, TRUE)
  /\ Get(status[1], 0) = 255
  /\ pre[1][0 + 1] = 255

\* The second call of a set_led(row, column, True), set_led(row, column,
\* False) pair has completed.
ToggledBack(d) ==
  /\ phase[d] = "ret"
  /\ hist[d] # NoHist
  /\ call[d] = Op3("set_led", hist[d].row, hist[d].column, FALSE)

\* C6 as stated: set_led(row, column, True) followed by set_led(row, column,
\* False) restores status[row] to the value it had before the two calls.
C6_ToggleRestores ==
  \A d \in Drivers :
    ToggledBack(d) => Get(status[d], hist[d].row) = hist[d].prior

\* C6 as amended: the pair leaves status[row] equal to its prior value with
\* bit 0x80 >> column cleared, which is the prior value exactly when that
\* LED was off before the two calls.
C6_ToggleClearsBit ==
  \A d \in Drivers :
    ToggledBack(d) =>
      LET r == hist[d].row
          k == 7 - hist[d].column
      IN  /\ Get(status[d], r) = WithBit(hist[d].prior, k, FALSE)
          /\ (Get(status[d], r) = hist[d].prior) <=> ~HasBit(hist[d].prior, k)
          /\ \A q \in 0..7 : q # r => Get(status[d], q) = pre[d][q + 1]

C6_Witness ==
  /\ ToggledBack(1)
  /\ hist[1].column = 1
  /\ hist[1].prior = 160
  /\ Get(status[1], 0) = 160

\* C7: a failed transmit is not propagated: the method makes the same
\* register writes, returns normally and leaves status as the run with
\* every transmit succeeding leaves it.
C7_FaultSwallowed ==
  \A d \in Drivers :
    (phase[d] = "ret" /\ faults[d] > 0) =>
      LET ideal == RunToEnd(call[d], 0, [status[d] EXCEPT ![1] = pre[d]])
      IN  /\ ~raised[d]
          /\ ideal.kind = "ret"
          /\ status[d] = ideal.st
          /\ Len(log[d]) = ideal.writes

C7_Witness ==
  /\ phase[1] = "ret"
  /\ faults[1] > 0
  /\ call[1] = Op2("set_row", 0, TRUE)
  /\ pre[1][0 + 1] = 1
  /\ Get(status[1], 0) = 255
  /\ Len(log[1]) = 8

\* C8: with two drivers on one bus, both chip-selects are never asserted
\* together, and a driver about to transmit holds the lock and has its own
\* chip-select asserted while the other's is deasserted.
C8_TwoDriversSafe ==
  /\ ~(cs[1] /\ cs[2])
  /\ \A d \in Drivers :
       (phase[d] = "run" /\ wpc[d] = "write") =>
         /\ lockHolder = d
         /\ cs[d]
         /\ \A e \in Drivers \ {d} :
              ~cs[e] /\ wpc[e] \notin {"select", "write", "unselect", "unlock"}

C8_Witness ==
  /\ phase[1] = "run" /\ wpc[1] = "write"
  /\ phase[2] = "run" /\ wpc[2] = "lock"
  /\ call[1].op = "set_led"
  /\ call[2].op = "MAX7219"

\* C9: set_column(col, state) with col in 0..7 sets (state true) or clears
\* (state false) bit 7 - col of every row's status, changes no other bit,
\* and issues exactly eight writes, to digit registers 1..8 in this order,
\* each carrying its row's updated status.
C9_SetColumn ==
  \A d \in Drivers :
    (phase[d] = "ret" /\ call[d].op = "set_column" /\ call[d].a \in 0..7) =>
      /\ \A r \in 0..7 :
           Get(status[d], r) = WithBit(pre[d][r + 1], 7 - call[d].a, call[d].c)
      /\ \A k \in 8..(StatusLen - 1) : Get(status[d], k) = 0
      /\ log[d] = [n \in 1..8 |-> << n, Get(status[d], n - 1) >>]

C9_Witness ==
  /\ phase[1] = "ret"
  /\ call[1] = Op2("set_column", 7, FALSE)
  /\ pre[1][0 + 1] = 255
  /\ Get(status[1], 0) = 254
  /\ pre[1][7 + 1] = 1
  /\ Get(status[1], 7) = 0

\* C10: set_char(d, value, state) with d in 0..7 and value outside 0..127
\* leaves status[d] = char_table[32], with 0x80 added when state is true,
\* and writes that byte to digit register d + 1.
C10_SpaceFallback ==
  \A d \in Drivers :
    ( /\ phase[d] = "ret"
      /\ call[d].op = "set_char"
      /\ call[d].a \in 0..7
      /\ call[d].b \notin 0..127 ) =>
      LET glyph == char_table[32 + 1] + (IF call[d].c THEN 128 ELSE 0)
      IN  /\ ~raised[d]
          /\ Get(status[d], call[d].a) = glyph
          /\ log[d] = << << call[d].a + 1, glyph >> >>

====
